---- MODULE Spec2Model ----
(***************************************************************************)
(* A model of browser.py: the address parser (validate_input, parse_input), *)
(* the navigation interceptor (CustomWebEnginePage.acceptNavigationRequest),*)
(* the per-tab handlers of BrowserTab and the window operations of          *)
(* MiniBrowser.                                                              *)
(*                                                                           *)
(* Strings are TLA+ strings; a character is a string of length one.         *)
(*                                                                           *)
(* The rendering engine (QWebEngineView / QWebEnginePage) is not part of    *)
(* the source.  It is modelled by the contract the handlers rely on:        *)
(*   - setUrl(u) makes u the view's location and starts a load, which the   *)
(*     engine reports by urlChanged(u) and then loadFinished(ok);           *)
(*   - setHtml(html) displays the in-memory document, the location becomes  *)
(*     MEMORY_DOC, reported by urlChanged and loadFinished(True);           *)
(*   - a link or frame of a hosted page makes the engine call               *)
(*     acceptNavigationRequest; the engine performs the navigation only     *)
(*     when the hook returned True, and does nothing more when it returned  *)
(*     False;                                                                *)
(*   - runJavaScript("document.title", cb) calls cb later with the title of *)
(*     the document then displayed.                                          *)
(* All handlers run on the one event-loop thread: a handler runs to its end *)
(* before the next event is taken.                                           *)
(***************************************************************************)
EXTENDS Integers, Sequences, FiniteSets, TLC

VARIABLES tabs, current, url_bar, pc, last, gestures, parts, result

vars == <<tabs, current, url_bar, pc, last, gestures, parts, result>>

(***************************************************************************)
(* Bounds of the model.                                                     *)
(***************************************************************************)
MaxTabs == 2
MaxGestures == 2

(***************************************************************************)
(* CONFIG                                                                    *)
(***************************************************************************)
GITHUB_BASE == "https://datlittladucky.github.io/Websites/"

START_PAGE == GITHUB_BASE \o "start/index.html"

\* The location the engine reports for a document given to setHtml.
MEMORY_DOC == "about:blank"

(***************************************************************************)
(* Python str operations used by the source.                                *)
(***************************************************************************)
Ch(s, i) == SubSeq(s, i, i)

Chars(s) == {Ch(s, i) : i \in 1..Len(s)}

From(s, i) == SubSeq(s, i, Len(s))

\* s.startswith(p)
StartsWith(s, p) == Len(s) >= Len(p) /\ SubSeq(s, 1, Len(p)) = p

\* s.replace(old, ""): every occurrence, left to right, not overlapping.
RECURSIVE Remove(_, _)
Remove(s, old) ==
    IF Len(s) = 0 THEN s
    ELSE IF StartsWith(s, old) THEN Remove(From(s, Len(old) + 1), old)
    ELSE Ch(s, 1) \o Remove(From(s, 2), old)

\* s.strip(chars): leading and trailing characters of the set removed.
RECURSIVE LStrip(_, _)
LStrip(s, cs) ==
    IF Len(s) > 0 /\ Ch(s, 1) \in cs THEN LStrip(From(s, 2), cs) ELSE s

RECURSIVE RStrip(_, _)
RStrip(s, cs) ==
    IF Len(s) > 0 /\ Ch(s, Len(s)) \in cs
    THEN RStrip(SubSeq(s, 1, Len(s) - 1), cs) ELSE s

Strip(s, cs) == RStrip(LStrip(s, cs), cs)

Whitespace == {" ", "\t", "\n", "\r"}

UpperAlpha == "ABCDEFGHIJKLMNOPQRSTUVWXYZ"
LowerAlpha == "abcdefghijklmnopqrstuvwxyz"
Digits == "0123456789"

LowerCh(c) ==
    IF c \in Chars(UpperAlpha)
    THEN Ch(LowerAlpha, CHOOSE i \in 1..Len(UpperAlpha) : Ch(UpperAlpha, i) = c)
    ELSE c

\* s.lower()
RECURSIVE Lower(_)
Lower(s) == IF Len(s) = 0 THEN s ELSE LowerCh(Ch(s, 1)) \o Lower(From(s, 2))

\* sub in s
Contains(s, sub) == \E i \in 1..(Len(s) + 1) : StartsWith(From(s, i), sub)

\* The index of the first c in s, 0 when there is none.
Find(s, c) ==
    IF c \in Chars(s) THEN CHOOSE i \in 1..Len(s) :
                              Ch(s, i) = c /\ \A j \in 1..(i - 1) : Ch(s, j) # c
    ELSE 0

(***************************************************************************)
(* VALIDATION                                                                *)
(***************************************************************************)
HostChars == Chars(LowerAlpha) \cup Chars(UpperAlpha) \cup Chars(Digits) \cup {"-"}
PathChars == HostChars \cup {"_", "/"}

\* ([a-zA-Z0-9-]+\.)+ matches all of h: one or more non-empty labels, each
\* followed by a dot.
MatchesLabels(h) ==
    /\ Len(h) > 0
    /\ Ch(h, Len(h)) = "."
    /\ Ch(h, 1) # "."
    /\ \A i \in 1..Len(h) : Ch(h, i) \in HostChars \cup {"."}
    /\ \A i \in 1..(Len(h) - 1) : ~(Ch(h, i) = "." /\ Ch(h, i + 1) = ".")

\* (/[a-zA-Z0-9\-_/]*)?$ matches all of t; $ also matches before one final
\* newline.
MatchesPathEnd(t) ==
    LET p == IF Len(t) > 0 /\ Ch(t, Len(t)) = "\n"
             THEN SubSeq(t, 1, Len(t) - 1) ELSE t
    IN  \/ t = ""
        \/ p = ""
        \/ /\ Ch(p, 1) = "/"
           /\ \A i \in 2..Len(p) : Ch(p, i) \in PathChars

\* ([a-zA-Z0-9-]+\.)+(com|co\.uk|org)(/[a-zA-Z0-9\-_/]*)?$ matches all of r.
MatchesHostTldPath(r) ==
    \E k \in 1..Len(r) :
        /\ MatchesLabels(SubSeq(r, 1, k))
        /\ \E tld \in {"com", "co.uk", "org"} :
              /\ StartsWith(From(r, k + 1), tld)
              /\ MatchesPathEnd(From(r, k + 1 + Len(tld)))

\* re.match(r"^(https?://)?([a-zA-Z0-9-]+\.)+(com|co\.uk|org)(/[a-zA-Z0-9\-_/]*)?$", s)
\* as a truth value.
validate_input(user_input) ==
    \E scheme \in {"", "http://", "https://"} :
        /\ StartsWith(user_input, scheme)
        /\ MatchesHostTldPath(From(user_input, Len(scheme) + 1))

\* Variant: the scheme is not removed before splitting.
parse_input_KeepsScheme(user_input) ==
    LET s2 == Strip(user_input, {"/"})
        k  == Find(s2, "/")
    IN  IF k = 0 THEN <<s2, "">>
        ELSE <<SubSeq(s2, 1, k - 1), From(s2, k + 1)>>

\* Variant: split("/") without the limit, the subpath being parts[1].
parse_input_SplitsEverySlash(user_input) ==
    LET s1 == Remove(Remove(user_input, "http://"), "https://")
        s2 == Strip(s1, {"/"})
        k  == Find(s2, "/")
        rest == From(s2, k + 1)
        k2 == Find(rest, "/")
    IN  IF k = 0 THEN <<s2, "">>
        ELSE <<SubSeq(s2, 1, k - 1),
               IF k2 = 0 THEN rest ELSE SubSeq(rest, 1, k2 - 1)>>

\* The pair <<domain, subpath>>.
parse_input(user_input) ==
    LET s1 == Remove(Remove(user_input, "http://"), "https://")
        s2 == Strip(s1, {"/"})
        k  == Find(s2, "/")
    IN  IF k = 0 THEN <<s2, "">>
        ELSE <<SubSeq(s2, 1, k - 1), From(s2, k + 1)>>

\* Variant: the ".html" suffix is forgotten when there is a subpath.
\* Variant: the target is built on the domain itself, not on the host.
RewrittenTarget_External(domain, subpath) ==
    IF subpath # "" THEN "https://" \o domain \o "/" \o subpath
    ELSE "https://" \o domain

RewrittenTarget_NoSuffix(domain, subpath) ==
    IF subpath # ""
    THEN GITHUB_BASE \o domain \o "/" \o subpath
    ELSE GITHUB_BASE \o domain \o "/index.html"

\* new_url / target_url of the source.
RewrittenTarget(domain, subpath) ==
    IF subpath # ""
    THEN GITHUB_BASE \o domain \o "/" \o subpath \o ".html"
    ELSE GITHUB_BASE \o domain \o "/index.html"

\* virtual_url of the source.
VirtualAddress(domain, subpath) ==
    IF subpath # "" THEN domain \o "/" \o subpath ELSE domain

(***************************************************************************)
(* The view of one tab: BrowserTab with its QWebEngineView.                 *)
(*   url          the engine's location (QWebEngineView.url())              *)
(*   virtual_url  self.browser.virtual_url                                  *)
(*   content      the document displayed                                    *)
(*   nav          the notification the engine owes for the load in progress *)
(*   request      a navigation request the hook has allowed and the engine  *)
(*                has not yet performed                                      *)
(*   titleQuery   a runJavaScript("document.title") call is in flight       *)
(***************************************************************************)
BLANK == "blank"
HOSTED == "hosted page"

NoRequest == [url |-> "", main |-> FALSE]

\* The html of show_custom_404, reduced to the parts that vary.
ErrorDocument(message) == "<h1>404</h1><p>" \o message \o "</p>"

IsErrorDocument(content) == StartsWith(content, "<h1>404</h1>")

\* BrowserTab.__init__
NewView ==
    [url |-> "", virtual_url |-> "", content |-> BLANK, nav |-> "idle",
     request |-> NoRequest, titleQuery |-> FALSE]

\* QWebEngineView.setUrl
setUrl(view, url) == [view EXCEPT !.url = url, !.nav = "urlChanged"]

\* QWebEngineView.setHtml
setHtml(view, html) ==
    [view EXCEPT !.content = html, !.url = MEMORY_DOC, !.nav = "urlChanged"]

\* Variant: showing the error document also forgets the Virtual Address.
show_custom_404_ForgetsVirtual(view, message) ==
    [setHtml(view, ErrorDocument(message)) EXCEPT !.virtual_url = ""]

show_custom_404(view, message) == setHtml(view, ErrorDocument(message))

\* Variant: an else branch clears the Virtual Address.
sync_virtual_url_ClearsOtherwise(view, url) ==
    IF StartsWith(url, GITHUB_BASE)
    THEN [view EXCEPT !.virtual_url =
              Strip(Remove(Remove(url, GITHUB_BASE), ".html"), {"/"})]
    ELSE [view EXCEPT !.virtual_url = ""]

sync_virtual_url(view, url) ==
    IF StartsWith(url, GITHUB_BASE)
    THEN [view EXCEPT !.virtual_url =
              Strip(Remove(Remove(url, GITHUB_BASE), ".html"), {"/"})]
    ELSE view

check_load_success(view, success) ==
    IF ~success THEN show_custom_404(view, "Page failed to load")
    ELSE [view EXCEPT !.titleQuery = TRUE]

\* Variant: an empty title counts as not found too.
check_title_for_404_EmptyToo(view, title) ==
    IF title = "" \/ Contains(title, "404")
    THEN show_custom_404(view, "Page not found")
    ELSE view

\* Variant: only a title that is exactly "404" counts.
check_title_for_404_ExactTitle(view, title) ==
    IF title = "404" THEN show_custom_404(view, "Page not found") ELSE view

check_title_for_404(view, title) ==
    IF title # "" /\ Contains(title, "404")
    THEN show_custom_404(view, "Page not found")
    ELSE view

(***************************************************************************)
(* The decision of acceptNavigationRequest for url_str.                     *)
(***************************************************************************)
\* re.match(r"https?://(.+)", url_str): group(1), or "" when there is no
\* match ("." matches no newline, "+" needs one character).
RECURSIVE UpToNewline(_)
UpToNewline(s) ==
    IF Len(s) = 0 \/ Ch(s, 1) = "\n" THEN ""
    ELSE Ch(s, 1) \o UpToNewline(From(s, 2))

SchemeRemainder(url_str) ==
    IF StartsWith(url_str, "https://") /\ UpToNewline(From(url_str, 9)) # ""
    THEN UpToNewline(From(url_str, 9))
    ELSE IF StartsWith(url_str, "http://")
    THEN UpToNewline(From(url_str, 8))
    ELSE ""

\* Variant: the hook lets every http(s) target through, as the default
\* QWebEnginePage does.
Decide_AllowExternal(url_str) ==
    IF StartsWith(url_str, GITHUB_BASE) \/ SchemeRemainder(url_str) # ""
    THEN [outcome |-> "Allow", new_url |-> "", virtual_url |-> ""]
    ELSE [outcome |-> "Block", new_url |-> "", virtual_url |-> ""]

\* Variant: the remainder is rewritten without being validated.
Decide_NoValidation(url_str) ==
    LET user_input == SchemeRemainder(url_str)
        parsed == parse_input(user_input)
    IN  IF StartsWith(url_str, GITHUB_BASE)
        THEN [outcome |-> "Allow", new_url |-> "", virtual_url |-> ""]
        ELSE IF user_input # ""
        THEN [outcome |-> "Redirect",
              new_url |-> RewrittenTarget(parsed[1], parsed[2]),
              virtual_url |-> VirtualAddress(parsed[1], parsed[2])]
        ELSE [outcome |-> "Block", new_url |-> "", virtual_url |-> ""]

\* Variant: the early return for internal pages is missing.
Decide_NoInternalCheck(url_str) ==
    LET user_input == SchemeRemainder(url_str)
        parsed == parse_input(user_input)
    IN  IF user_input # "" /\ validate_input(user_input)
        THEN [outcome |-> "Redirect",
              new_url |-> RewrittenTarget(parsed[1], parsed[2]),
              virtual_url |-> VirtualAddress(parsed[1], parsed[2])]
        ELSE [outcome |-> "Block", new_url |-> "", virtual_url |-> ""]

Decide(url_str) ==
    IF StartsWith(url_str, GITHUB_BASE)
    THEN [outcome |-> "Allow", new_url |-> "", virtual_url |-> ""]
    ELSE LET user_input == SchemeRemainder(url_str)
             parsed == parse_input(user_input)
         IN  IF user_input # "" /\ validate_input(user_input)
             THEN [outcome |-> "Redirect",
                   new_url |-> RewrittenTarget(parsed[1], parsed[2]),
                   virtual_url |-> VirtualAddress(parsed[1], parsed[2])]
             ELSE [outcome |-> "Block", new_url |-> "", virtual_url |-> ""]

(***************************************************************************)
(* Inputs.                                                                   *)
(***************************************************************************)
\* What the user types into the address bar.
AddressInputs ==
    {"example.com", "example.com/foo/bar", "https://example.org/",
     "not a domain", " Start ", "websites/start"}

\* Where links and frames of a hosted page point (QUrl.toString()).
LinkTargets ==
    {GITHUB_BASE \o "example.com/index.html",
     "http://example.com", "https://example.org/docs", "https://a.html.com",
     "https://malicious.test/", "ftp://example.com/file"}

\* document.title of a hosted page.
Titles == {"", "Example", "404 Not Found"}

Idle == [at |-> "idle", view |-> 0, new_url |-> ""]

\* main is the is_main_frame argument of a navigation request; every other
\* event concerns the view as a whole.
Event(op, view, arg, outcome) ==
    [op |-> op, view |-> view, arg |-> arg, outcome |-> outcome, main |-> TRUE]

(***************************************************************************)
(* The address parser on its own: parts is the input under test, put        *)
(* together from a scheme, a host part, a top-level label and a path;       *)
(* result holds what validate_input and parse_input returned for it.        *)
(* The browser leaves both untouched.                                        *)
(***************************************************************************)
NoParts == [scheme |-> "", host |-> "", tld |-> "", path |-> ""]

NoResult == [stage |-> "input", valid |-> FALSE, domain |-> "", subpath |-> ""]

Text(p) == p.scheme \o p.host \o p.tld \o p.path

(***************************************************************************)
(* MiniBrowser                                                               *)
(***************************************************************************)
\* Variant: the branch for a view without virtual_url is always taken.
update_url_bar_Empty(view) == ""

\* update_url_bar: the text the address bar gets when view becomes current.
update_url_bar(view) == view.virtual_url

\* MiniBrowser.__init__: add_tab(start_url=START_PAGE) on the empty window.
Init ==
    /\ tabs = <<setUrl(NewView, START_PAGE)>>
    /\ current = 1
    /\ url_bar = update_url_bar(NewView)
    /\ pc = Idle
    /\ last = Event("__init__", 1, "", "")
    /\ gestures = 0
    /\ parts = NoParts
    /\ result = NoResult

Gesture ==
    /\ pc = Idle
    /\ gestures < MaxGestures
    /\ gestures' = gestures + 1

\* The "+" button: add_tab(start_url=START_PAGE).
add_tab ==
    /\ Gesture
    /\ Len(tabs) < MaxTabs
    /\ tabs' = Append(tabs, setUrl(NewView, START_PAGE))
    /\ current' = Len(tabs) + 1
    /\ url_bar' = update_url_bar(NewView)
    /\ last' = Event("add_tab", Len(tabs) + 1, "", "")
    /\ UNCHANGED pc

\* Variant: the last tab may be closed too.
MayClose_Always(count) == count > 0

\* self.tabs.count() > 1
MayClose(count) == count > 1

RemoveAt(seq, index) ==
    SubSeq(seq, 1, index - 1) \o SubSeq(seq, index + 1, Len(seq))

\* QTabWidget.removeTab: the current index after tab index is removed
\* (0 when no tab is left).
CurrentAfterRemove(index) ==
    IF index < current THEN current - 1
    ELSE IF index = current /\ index = Len(tabs) THEN index - 1
    ELSE current

\* tabCloseRequested(index).  removeTab emits currentChanged, which runs
\* update_url_bar, when the current index changes; with no tab left
\* current_browser() raises and the address bar keeps its text.
close_tab(index) ==
    /\ Gesture
    /\ IF MayClose(Len(tabs))
       THEN /\ tabs' = RemoveAt(tabs, index)
            /\ current' = CurrentAfterRemove(index)
            /\ url_bar' = IF index <= current /\ current' >= 1
                          THEN update_url_bar(tabs'[current'])
                          ELSE url_bar
            /\ last' = Event("close_tab", index, "", "closed")
       ELSE /\ UNCHANGED <<tabs, current, url_bar>>
            /\ last' = Event("close_tab", index, "", "ignored")
    /\ UNCHANGED pc

\* The user selects another tab: currentChanged(index) -> update_url_bar.
switch_tab(index) ==
    /\ Gesture
    /\ index # current
    /\ current' = index
    /\ url_bar' = update_url_bar(tabs[index])
    /\ last' = Event("switch_tab", index, "", "")
    /\ UNCHANGED <<tabs, pc>>

\* Variant: the comparison without lower().
IsStartToken_CaseSensitive(user_input) ==
    user_input \in {"start", "websites/start"}

\* user_input.lower() in ["start", "websites/start"]
IsStartToken(user_input) == Lower(user_input) \in {"start", "websites/start"}

\* returnPressed with text in the address bar.
load_page(text) ==
    LET user_input == Strip(text, Whitespace)
        parsed == parse_input(user_input)
        browser == tabs[current]
    IN  /\ Gesture
        /\ url_bar' = text
        /\ IF IsStartToken(user_input)
           THEN /\ tabs' = [tabs EXCEPT ![current] = setUrl(browser, START_PAGE)]
                /\ last' = Event("load_page", current, text, "start")
           ELSE IF ~validate_input(user_input)
           THEN /\ tabs' = [tabs EXCEPT ![current] =
                               show_custom_404(browser, "Invalid domain format")]
                /\ last' = Event("load_page", current, text, "invalid")
           ELSE /\ tabs' = [tabs EXCEPT ![current] =
                               setUrl([browser EXCEPT !.virtual_url =
                                          VirtualAddress(parsed[1], parsed[2])],
                                      RewrittenTarget(parsed[1], parsed[2]))]
                /\ last' = Event("load_page", current, text, "load")
        /\ UNCHANGED <<current, pc>>

(***************************************************************************)
(* CustomWebEnginePage.acceptNavigationRequest(url, nav_type, is_main_frame)*)
(* on the page of view i, called by the engine for a link or frame of the   *)
(* hosted page the view displays.  On a redirect the handler first stores   *)
(* virtual_url (pc goes to "setUrl") and then calls setUrl                  *)
(* (acceptNavigationRequest_setUrl); nothing else runs in between.          *)
(***************************************************************************)
acceptNavigationRequest(i, url_str, is_main_frame) ==
    LET d == Decide(url_str)
    IN  /\ Gesture
        /\ tabs[i].content = HOSTED
        /\ last' = [Event("acceptNavigationRequest", i, url_str, d.outcome)
                        EXCEPT !.main = is_main_frame]
        /\ IF d.outcome = "Allow"
           THEN /\ tabs' = [tabs EXCEPT ![i].request =
                               [url |-> url_str, main |-> is_main_frame]]
                /\ UNCHANGED pc
           ELSE IF d.outcome = "Redirect"
           THEN /\ tabs' = [tabs EXCEPT ![i].virtual_url = d.virtual_url]
                /\ pc' = [at |-> "setUrl", view |-> i, new_url |-> d.new_url]
           ELSE UNCHANGED <<tabs, pc>>
        /\ UNCHANGED <<current, url_bar>>

acceptNavigationRequest_setUrl ==
    /\ pc.at = "setUrl"
    /\ tabs' = [tabs EXCEPT ![pc.view] = setUrl(tabs[pc.view], pc.new_url)]
    /\ pc' = Idle
    /\ last' = Event("acceptNavigationRequest_setUrl", pc.view, pc.new_url, "")
    /\ UNCHANGED <<current, url_bar, gestures>>

(***************************************************************************)
(* The engine's side.                                                        *)
(***************************************************************************)
\* The engine performs a navigation the hook allowed.
engine_navigate(i) ==
    /\ pc = Idle
    /\ tabs[i].request # NoRequest
    /\ tabs' = [tabs EXCEPT ![i] =
                   IF tabs[i].request.main
                   THEN [setUrl(tabs[i], tabs[i].request.url)
                            EXCEPT !.request = NoRequest]
                   ELSE [tabs[i] EXCEPT !.request = NoRequest]]
    /\ last' = Event("navigate", i, tabs[i].request.url, "")
    /\ UNCHANGED <<current, url_bar, pc, gestures>>

\* The navigation to the view's location is completed: urlChanged.
urlChanged(i) ==
    /\ pc = Idle
    /\ tabs[i].nav = "urlChanged"
    /\ tabs' = [tabs EXCEPT ![i] =
                   [sync_virtual_url(tabs[i], tabs[i].url) EXCEPT
                       !.nav = "loadFinished",
                       !.content = IF tabs[i].url = MEMORY_DOC
                                   THEN tabs[i].content ELSE HOSTED]]
    /\ last' = Event("urlChanged", i, tabs[i].url, "")
    /\ UNCHANGED <<current, url_bar, pc, gestures>>

\* loadFinished(success); an in-memory document always loads.
loadFinished(i, success) ==
    /\ pc = Idle
    /\ tabs[i].nav = "loadFinished"
    /\ tabs[i].url = MEMORY_DOC => success
    /\ tabs' = [tabs EXCEPT ![i] =
                   check_load_success([tabs[i] EXCEPT !.nav = "idle"], success)]
    /\ last' = Event("loadFinished", i, "", IF success THEN "ok" ELSE "failed")
    /\ UNCHANGED <<current, url_bar, pc, gestures>>

\* document.title of what the view displays.
TitlesOf(view) == IF view.content = HOSTED THEN Titles ELSE {""}

\* Variant: the title callback acts on the active view, not on the view
\* that asked.
titleResult_OnCurrent(i, title) ==
    LET asked == [tabs EXCEPT ![i].titleQuery = FALSE]
    IN  /\ pc = Idle
        /\ tabs[i].titleQuery
        /\ title \in TitlesOf(tabs[i])
        /\ tabs' = [asked EXCEPT ![current] =
                       check_title_for_404(asked[current], title)]
        /\ last' = Event("titleResult", i, title, "")
        /\ UNCHANGED <<current, url_bar, pc, gestures>>

\* The result of runJavaScript("document.title") arrives.
titleResult(i, title) ==
    /\ pc = Idle
    /\ tabs[i].titleQuery
    /\ title \in TitlesOf(tabs[i])
    /\ tabs' = [tabs EXCEPT ![i] =
                   check_title_for_404([tabs[i] EXCEPT !.titleQuery = FALSE], title)]
    /\ last' = Event("titleResult", i, title, "")
    /\ UNCHANGED <<current, url_bar, pc, gestures>>

Views == 1..Len(tabs)

\* The browser does not touch the parser's input and result.
Frame == UNCHANGED <<parts, result>>

Next ==
    \/ add_tab /\ Frame
    \/ \E index \in Views : close_tab(index) /\ Frame
    \/ \E index \in Views : switch_tab(index) /\ Frame
    \/ \E text \in AddressInputs : load_page(text) /\ Frame
    \/ \E i \in Views, url_str \in LinkTargets, is_main_frame \in BOOLEAN :
          acceptNavigationRequest(i, url_str, is_main_frame) /\ Frame
    \/ acceptNavigationRequest_setUrl /\ Frame
    \/ \E i \in Views : engine_navigate(i) /\ Frame
    \/ \E i \in Views : urlChanged(i) /\ Frame
    \/ \E i \in Views, success \in BOOLEAN : loadFinished(i, success) /\ Frame
    \/ \E i \in Views, title \in Titles : titleResult(i, title) /\ Frame

Spec == Init /\ [][Next]_vars

(***************************************************************************)
(* The address parser applied to inputs put together from these parts.      *)
(***************************************************************************)
Schemes == {"", "http://", "https://", "ftp://"}

HostParts == {"", "example.", "a-1.b.", "a.html.", "ex ample.", "a_b."}

TldParts == {"com", "co.uk", "org", "net", ""}

PathParts ==
    {"", "/", "/foo", "/foo/bar/", "//b", "/foo_bar-1",
     "/a b", "/a.b", "\n", "/x\n"}

ParseInit ==
    /\ tabs = <<setUrl(NewView, START_PAGE)>>
    /\ current = 1
    /\ url_bar = update_url_bar(NewView)
    /\ pc = Idle
    /\ last = Event("__init__", 1, "", "")
    /\ gestures = 0
    /\ parts \in [scheme : Schemes, host : HostParts, tld : TldParts,
                  path : PathParts]
    /\ result = NoResult

\* validate_input(user_input) is called.
Validate ==
    /\ result.stage = "input"
    /\ result' = [NoResult EXCEPT !.stage = "validated",
                                  !.valid = validate_input(Text(parts))]
    /\ UNCHANGED <<tabs, current, url_bar, pc, last, gestures, parts>>

\* parse_input(user_input) is called, as the callers do, on an input that
\* validate_input accepted.
Parse ==
    /\ result.stage = "validated"
    /\ result.valid
    /\ result' = [result EXCEPT !.stage = "parsed",
                                !.domain = parse_input(Text(parts))[1],
                                !.subpath = parse_input(Text(parts))[2]]
    /\ UNCHANGED <<tabs, current, url_bar, pc, last, gestures, parts>>

ParseNext == Validate \/ Parse

ParseSpec == ParseInit /\ [][ParseNext]_vars

(***************************************************************************)
(* Type correctness.                                                         *)
(***************************************************************************)
TypeOK ==
    /\ Len(tabs) \in 1..MaxTabs
    /\ current \in Views
    /\ gestures \in 0..MaxGestures
    /\ pc.at \in {"idle", "setUrl"}
    /\ \A i \in Views : tabs[i].nav \in {"idle", "urlChanged", "loadFinished"}

(***************************************************************************)
(* Properties.                                                               *)
(***************************************************************************)
\* What the properties say of a text or a target, written from their wording.
Trimmed(text) == Strip(text, Whitespace)

StartTokenTyped(text) == Lower(Trimmed(text)) \in {"start", "websites/start"}

UnderHost(url) == StartsWith(url, GITHUB_BASE)

\* The target with its http:// or https:// removed; "" without such a scheme.
WithoutScheme(url) ==
    IF StartsWith(url, "https://") THEN From(url, 9)
    ELSE IF StartsWith(url, "http://") THEN From(url, 8)
    ELSE ""

RewritableTarget(url) ==
    ~UnderHost(url) /\ WithoutScheme(url) # "" /\ validate_input(WithoutScheme(url))

BlockedTarget(url) == ~UnderHost(url) /\ ~RewritableTarget(url)

\* {host}/{domain}/{subpath}.html, or {host}/{domain}/index.html.
TargetOf(domain, subpath) ==
    IF subpath = "" THEN GITHUB_BASE \o domain \o "/index.html"
    ELSE GITHUB_BASE \o domain \o "/" \o subpath \o ".html"

\* {domain}/{subpath}, or {domain}.
VirtualOf(domain, subpath) ==
    IF subpath = "" THEN domain ELSE domain \o "/" \o subpath

\* C1. Origin confinement: the location of every view is the start page, a
\* URL under GITHUB_BASE or the in-memory document; never another origin.
C1_OriginConfinement ==
    \A i \in Views :
        \/ tabs[i].url = START_PAGE
        \/ UnderHost(tabs[i].url)
        \/ tabs[i].url = MEMORY_DOC /\ IsErrorDocument(tabs[i].content)

\* A view has met an external target in a page, another shows an error
\* document.
C1_Witness ==
    /\ last.op = "acceptNavigationRequest"
    /\ last.arg = "https://malicious.test/"
    /\ \E i \in Views : tabs[i].url = MEMORY_DOC
    /\ \E i \in Views : UnderHost(tabs[i].url)

\* C2. Block: a target that is neither under the host nor an http(s) address
\* whose remainder validates is denied and nothing else happens: no view
\* changes its location, Virtual Address or content, no error document is
\* shown, and no redirect is under way.
C2_BlockChangesNothing ==
    [][(last'.op = "acceptNavigationRequest" /\ BlockedTarget(last'.arg))
         => /\ tabs' = tabs
            /\ pc' = Idle
            /\ <<current, url_bar>>' = <<current, url_bar>>]_vars

C2_Witness ==
    /\ last.op = "acceptNavigationRequest"
    /\ last.arg = "https://malicious.test/"
    /\ last.outcome = "Block"
    /\ tabs[last.view].content = HOSTED

\* C3. CancelAndRedirect: for an http(s) target outside the host whose
\* remainder validates, the hook allows nothing, stores the Virtual Address
\* domain/subpath (or domain) while the location is still the old one, and
\* only then sets the location to GITHUB_BASE + domain + "/" + subpath +
\* ".html" (or GITHUB_BASE + domain + "/index.html"), the Virtual Address
\* staying as stored.
C3_CancelAndRedirect ==
    [][/\ (last'.op = "acceptNavigationRequest" /\ RewritableTarget(last'.arg))
          => LET i == last'.view
                 parsed == parse_input(WithoutScheme(last'.arg))
             IN  /\ tabs'[i].virtual_url = VirtualOf(parsed[1], parsed[2])
                 /\ tabs'[i].url = tabs[i].url
                 /\ tabs'[i].request = tabs[i].request
                 /\ pc' = [at |-> "setUrl", view |-> i,
                           new_url |-> TargetOf(parsed[1], parsed[2])]
       /\ pc.at = "setUrl"
          => /\ last'.op = "acceptNavigationRequest_setUrl"
             /\ tabs'[pc.view].url = pc.new_url
             /\ tabs'[pc.view].virtual_url = tabs[pc.view].virtual_url
             /\ pc' = Idle]_vars

C3_Witness ==
    /\ last.op = "acceptNavigationRequest_setUrl"
    /\ tabs[last.view].url = GITHUB_BASE \o "example.org/docs.html"
    /\ tabs[last.view].virtual_url = "example.org/docs"

\* C4. Allow: a target under the host is allowed as it is: the request the
\* engine goes on with is the target itself, and the hook changes neither
\* the location nor the Virtual Address nor starts a redirect.  Every
\* location under the host a view has, the program's Rewritten Targets
\* among them, is a target the hook allows.
C4_AllowUnmodified ==
    [][/\ (last'.op = "acceptNavigationRequest" /\ UnderHost(last'.arg))
          => LET i == last'.view
             IN  /\ last'.outcome = "Allow"
                 /\ tabs'[i].request.url = last'.arg
                 /\ tabs'[i].url = tabs[i].url
                 /\ tabs'[i].virtual_url = tabs[i].virtual_url
                 /\ tabs'[i].content = tabs[i].content
                 /\ pc' = Idle
       /\ \A i \in 1..Len(tabs') :
             UnderHost(tabs'[i].url) => Decide(tabs'[i].url).outcome = "Allow"]_vars

C4_Witness ==
    /\ last.op = "acceptNavigationRequest"
    /\ last.arg = GITHUB_BASE \o "example.com/index.html"
    /\ tabs[last.view].request.url = last.arg
    /\ tabs[last.view].url = GITHUB_BASE \o "example.com/foo/bar.html"

\* C5. Address-bar submission of a valid address that is no start token:
\* the active view's location is the Rewritten Target and its Virtual
\* Address is domain/subpath, or domain.
C5_ValidAddressLoads ==
    (last.op = "load_page" /\ ~StartTokenTyped(last.arg)
        /\ validate_input(Trimmed(last.arg)))
    => LET view == tabs[last.view]
           parsed == parse_input(Trimmed(last.arg))
       IN  /\ last.view = current
           /\ view.url = TargetOf(parsed[1], parsed[2])
           /\ view.virtual_url = VirtualOf(parsed[1], parsed[2])
           /\ last.arg = "example.com"
              => /\ view.url = "https://datlittladucky.github.io/Websites/example.com/index.html"
                 /\ view.virtual_url = "example.com"
           /\ last.arg = "example.com/foo/bar"
              => /\ view.url = "https://datlittladucky.github.io/Websites/example.com/foo/bar.html"
                 /\ view.virtual_url = "example.com/foo/bar"
           /\ last.arg = "https://example.org/"
              => /\ view.url = "https://datlittladucky.github.io/Websites/example.org/index.html"
                 /\ view.virtual_url = "example.org"

C5_Witness ==
    /\ last.op = "load_page"
    /\ last.arg = "example.com/foo/bar"
    /\ tabs[current].url = GITHUB_BASE \o "example.com/foo/bar.html"
    /\ tabs[current].virtual_url = "example.com/foo/bar"

\* C6 as stated. InvalidAddress: an address-bar input that is no start token
\* and fails validate_input shows the "Invalid domain format" error document
\* in the active view and mutates nothing: the active view's location and
\* Virtual Address, and every other view, stay as they were.
C6_InvalidAddressMutatesNothing ==
    [][(last'.op = "load_page" /\ ~StartTokenTyped(last'.arg)
           /\ ~validate_input(Trimmed(last'.arg)))
         => /\ IsErrorDocument(tabs'[current].content)
            /\ Contains(tabs'[current].content, "Invalid domain format")
            /\ tabs'[current].url = tabs[current].url
            /\ tabs'[current].virtual_url = tabs[current].virtual_url
            /\ current' = current
            /\ Len(tabs') = Len(tabs)
            /\ \A j \in Views : j # current => tabs'[j] = tabs[j]]_vars

\* C6 amended. The error document replaces the active view's content and its
\* location becomes the in-memory document; no load of a page of the host
\* is started, and the active view's Virtual Address and every other view
\* stay as they were.
C6_InvalidAddressShowsError ==
    [][(last'.op = "load_page" /\ ~StartTokenTyped(last'.arg)
           /\ ~validate_input(Trimmed(last'.arg)))
         => /\ IsErrorDocument(tabs'[current].content)
            /\ Contains(tabs'[current].content, "Invalid domain format")
            /\ tabs'[current].url = MEMORY_DOC
            /\ tabs'[current].request = tabs[current].request
            /\ tabs'[current].virtual_url = tabs[current].virtual_url
            /\ current' = current
            /\ Len(tabs') = Len(tabs)
            /\ \A j \in Views : j # current => tabs'[j] = tabs[j]]_vars

C6_Witness ==
    /\ last.op = "load_page"
    /\ last.arg = "not a domain"
    /\ Len(tabs) = 2
    /\ IsErrorDocument(tabs[current].content)
    /\ tabs[current].virtual_url = "start/index"

\* The location with the host prefix, the ".html" suffix and the slashes
\* around it stripped.
HostStripped(url) ==
    LET rest == From(url, Len(GITHUB_BASE) + 1)
        n == Len(rest)
        stem == IF n >= 5 /\ SubSeq(rest, n - 4, n) = ".html"
                THEN SubSeq(rest, 1, n - 5) ELSE rest
    IN  Strip(stem, {"/"})

\* C7 as stated. On urlChanged the Virtual Address becomes the location with
\* host prefix, ".html" suffix and surrounding slashes stripped when the
\* location is under the host, and is empty otherwise.
C7_SyncOrEmpty ==
    [][last'.op = "urlChanged"
         => LET i == last'.view
            IN  tabs'[i].virtual_url =
                   IF UnderHost(tabs[i].url) THEN HostStripped(tabs[i].url)
                   ELSE ""]_vars

\* C7 amended. On urlChanged the Virtual Address becomes the location with
\* every occurrence of the host prefix and of ".html" removed and the
\* surrounding slashes stripped when the location is under the host, and
\* keeps its value otherwise.
C7_SyncOrUnchanged ==
    [][last'.op = "urlChanged"
         => LET i == last'.view
            IN  /\ tabs'[i].url = tabs[i].url
                /\ tabs'[i].virtual_url =
                      IF UnderHost(tabs[i].url)
                      THEN Strip(Remove(Remove(tabs[i].url, GITHUB_BASE), ".html"),
                                 {"/"})
                      ELSE tabs[i].virtual_url]_vars

\* urlChanged for an error document in a view that had a Virtual Address.
C7_Witness ==
    /\ last.op = "urlChanged"
    /\ tabs[last.view].url = MEMORY_DOC
    /\ tabs[last.view].virtual_url = "example.com/foo/bar"

\* The valid addresses a view can be sent to, by the address bar or by a
\* redirect of the hook.
NavigatedAddresses ==
    {Trimmed(text) : text \in {t \in AddressInputs : validate_input(Trimmed(t))}}
    \cup {WithoutScheme(url) : url \in {u \in LinkTargets : RewritableTarget(u)}}

\* C8 as stated. Once the navigation to the Rewritten Target of a valid
\* address has completed and synchronization has run, the Virtual Address is
\* domain/subpath, or exactly domain when the subpath is empty.
C8_SyncKeepsVirtualAddress ==
    last.op = "urlChanged"
    => \A address \in NavigatedAddresses :
          LET parsed == parse_input(address)
          IN  tabs[last.view].url = TargetOf(parsed[1], parsed[2])
              => tabs[last.view].virtual_url = VirtualOf(parsed[1], parsed[2])

\* C9 as stated. A start token in the address bar sets the active view's
\* location to the start page, and once that navigation has completed the
\* Virtual Address is empty.
C9_StartTokenVirtualEmpty ==
    /\ (last.op = "load_page" /\ StartTokenTyped(last.arg))
       => tabs[current].url = "https://datlittladucky.github.io/Websites/start/index.html"
    /\ (last.op = "urlChanged" /\ last.view = current /\ StartTokenTyped(url_bar)
           /\ tabs[current].url = START_PAGE)
       => tabs[current].virtual_url = ""

\* C9 amended. A start token in the address bar (trimmed, in any case) sets
\* the active view's location to the start page, and once that navigation
\* has completed the Virtual Address is "start/index".
C9_StartTokenVirtualStartIndex ==
    /\ (last.op = "load_page" /\ StartTokenTyped(last.arg))
       => tabs[current].url = "https://datlittladucky.github.io/Websites/start/index.html"
    /\ (last.op = "urlChanged" /\ last.view = current /\ StartTokenTyped(url_bar)
           /\ tabs[current].url = START_PAGE)
       => tabs[current].virtual_url = "start/index"

C9_Witness ==
    /\ last.op = "urlChanged"
    /\ last.view = current
    /\ url_bar = " Start "
    /\ tabs[current].url = START_PAGE
    /\ tabs[current].virtual_url = "start/index"

\* C10. There is always at least one tab, and close_tab on the only tab
\* leaves it open and changes nothing.
C10_AtLeastOneView ==
    [][/\ Len(tabs) >= 1
       /\ Len(tabs') >= 1
       /\ (last'.op = "close_tab" /\ Len(tabs) = 1)
          => <<tabs, current, url_bar, pc>>' = <<tabs, current, url_bar, pc>>
       /\ (last'.op = "close_tab" /\ Len(tabs) > 1)
          => Len(tabs') = Len(tabs) - 1]_vars

\* close_tab on the only tab, after an address was loaded in it.
C10_Witness ==
    /\ last.op = "close_tab"
    /\ last.outcome = "ignored"
    /\ Len(tabs) = 1
    /\ tabs[1].virtual_url = "example.com"

\* C11. Not-found detection: a failed load replaces the view's content by
\* the error document "Page failed to load" and issues no title query; a
\* successful load leaves the content and issues a title query; when the
\* title arrives the content becomes the error document "Page not found"
\* exactly when the title contains "404", and stays as it is otherwise.
C11_NotFoundDetection ==
    [][/\ (last'.op = "loadFinished" /\ last'.outcome = "failed")
          => LET i == last'.view
             IN  /\ IsErrorDocument(tabs'[i].content)
                 /\ Contains(tabs'[i].content, "Page failed to load")
                 /\ tabs'[i].titleQuery = tabs[i].titleQuery
       /\ (last'.op = "loadFinished" /\ last'.outcome = "ok")
          => LET i == last'.view
             IN  /\ tabs'[i].content = tabs[i].content
                 /\ tabs'[i].titleQuery
       /\ last'.op = "titleResult"
          => LET i == last'.view
             IN  IF Contains(last'.arg, "404")
                 THEN /\ IsErrorDocument(tabs'[i].content)
                      /\ Contains(tabs'[i].content, "Page not found")
                 ELSE tabs'[i].content = tabs[i].content]_vars

\* The title "404 Not Found" of a hosted page has arrived.
C11_Witness ==
    /\ last.op = "titleResult"
    /\ last.arg = "404 Not Found"
    /\ tabs[last.view].content = "<h1>404</h1><p>Page not found</p>"

\* What C12 calls invalid: empty, no host label before the top-level label,
\* a top-level label other than com, co.uk and org, a scheme other than
\* http(s), or a character outside the host's or the path's alphabet.
C12_Invalid(p) ==
    \/ Text(p) = ""
    \/ p.host = ""
    \/ p.tld \notin {"com", "co.uk", "org"}
    \/ p.scheme \notin {"", "http://", "https://"}
    \/ \E c \in Chars(p.host) : c \notin HostChars \cup {"."}
    \/ \E c \in Chars(p.path) : c \notin PathChars

C13_Bare(s) ==
    Strip(IF WithoutScheme(s) # "" THEN WithoutScheme(s) ELSE s, {"/"})

\* C13. parse_input round trip: for an accepted input the domain is not
\* empty and has no slash, the subpath is all that follows the first slash,
\* and domain, or domain/subpath, is the input without its scheme and its
\* leading and trailing slashes.
C13_ParseRoundTrip ==
    result.stage = "parsed"
    => LET bare == C13_Bare(Text(parts))
           k == Find(bare, "/")
       IN  /\ result.domain # ""
           /\ "/" \notin Chars(result.domain)
           /\ bare = IF result.subpath = "" THEN result.domain
                     ELSE result.domain \o "/" \o result.subpath
           /\ result.subpath = IF k = 0 THEN "" ELSE From(bare, k + 1)

C13_Witness ==
    /\ result.stage = "parsed"
    /\ Text(parts) = "https://example.com/foo/bar/"
    /\ result.domain = "example.com"
    /\ result.subpath = "foo/bar"

(***************************************************************************)
(* C14  Per-view isolation: an event handled for one view (an intercepted   *)
(* navigation request and its redirect, an engine navigation, urlChanged,   *)
(* loadFinished, a title callback, an address-bar submission in the active  *)
(* view) opens or closes no view and leaves the Virtual Address, location   *)
(* and content of every other view as they were, whichever view is active.  *)
(***************************************************************************)
C14_ViewEvents ==
    {"acceptNavigationRequest", "acceptNavigationRequest_setUrl", "navigate",
     "urlChanged", "loadFinished", "titleResult", "load_page"}

C14_PerViewIsolation ==
    [][last'.op \in C14_ViewEvents
       => /\ Len(tabs') = Len(tabs)
          /\ \A j \in Views :
                j # last'.view
                => /\ tabs'[j].virtual_url = tabs[j].virtual_url
                   /\ tabs'[j].url = tabs[j].url
                   /\ tabs'[j].content = tabs[j].content]_vars

\* The first view's title callback reports a 404 after a second tab has
\* become the active one and has loaded its page.
C14_Witness ==
    /\ last.op = "titleResult"
    /\ last.view # current
    /\ tabs[last.view].content = ErrorDocument("Page not found")
    /\ tabs[current].content = HOSTED
    /\ tabs[current].virtual_url = "start/index"

(***************************************************************************)
(* C15  Address bar on view activation: when the active view changes (a    *)
(* tab is switched to, a new tab is opened, or the current tab is closed    *)
(* and another becomes current) the address bar text is set to the newly    *)
(* active view's Virtual Address at that moment.                            *)
(***************************************************************************)
C15_ActiveViewChanges ==
    \/ last'.op \in {"switch_tab", "add_tab"}
    \/ /\ last'.op = "close_tab"
       /\ last'.outcome = "closed"
       /\ last'.view = current

C15_AddressBarOnActivation ==
    [][C15_ActiveViewChanges => url_bar' = tabs'[current'].virtual_url]_vars

\* The user switches back to the first tab after it has loaded the start
\* page; the address bar, empty for the new tab, shows "start/index".
C15_Witness ==
    /\ last.op = "switch_tab"
    /\ current = 1
    /\ tabs[1].virtual_url = "start/index"
    /\ tabs[2].virtual_url = ""
    /\ url_bar = "start/index"

(***************************************************************************)
(* C16  Redirect convergence: a navigation request ends in exactly one of   *)
(* Allow, Redirect and Block, a redirect being under way exactly when the   *)
(* outcome is Redirect; the Rewritten Target of a redirect starts with the  *)
(* static-host prefix, so the hook's decision for the follow-up request to  *)
(* that target is Allow: no second redirect and no loop.                    *)
(***************************************************************************)
C16_RedirectConvergence ==
    /\ last.op = "acceptNavigationRequest"
       => /\ last.outcome \in {"Allow", "Redirect", "Block"}
          /\ (last.outcome = "Redirect") <=> (pc.at = "setUrl")
    /\ pc.at = "setUrl"
       => /\ last.op = "acceptNavigationRequest"
          /\ pc.view = last.view
          /\ StartsWith(pc.new_url, GITHUB_BASE)
          /\ Decide(pc.new_url).outcome = "Allow"
    /\ last.op = "acceptNavigationRequest_setUrl"
       => /\ pc = Idle
          /\ Decide(last.arg).outcome = "Allow"

\* A redirect for a link to http://example.com is under way.
C16_Witness ==
    /\ pc.at = "setUrl"
    /\ last.op = "acceptNavigationRequest"
    /\ last.arg = "http://example.com"
    /\ last.outcome = "Redirect"
    /\ pc.new_url = GITHUB_BASE \o "example.com/index.html"

(***************************************************************************)
(* C17  Error documents are terminal: for a view that displays an error     *)
(* document, each engine event caused by displaying it (urlChanged,         *)
(* loadFinished, the title callback) leaves the document and the location   *)
(* in place and strictly lowers the number of events still to come, so      *)
(* after at most three events nothing is pending for the view and the       *)
(* document stays until the user navigates.                                 *)
(***************************************************************************)
C17_ShowsError(view) ==
    view.url = MEMORY_DOC /\ IsErrorDocument(view.content)

\* Events still to come for the view: two per load stage, one for a title
\* query in flight.
C17_Pending(view) ==
    (CASE view.nav = "urlChanged" -> 4
       [] view.nav = "loadFinished" -> 2
       [] OTHER -> 0)
    + (IF view.titleQuery THEN 1 ELSE 0)

C17_ErrorDocumentTerminal ==
    [][(/\ last'.op \in {"urlChanged", "loadFinished", "titleResult"}
        /\ C17_ShowsError(tabs[last'.view]))
       => LET i == last'.view
          IN  /\ tabs'[i].content = tabs[i].content
              /\ tabs'[i].url = MEMORY_DOC
              /\ C17_Pending(tabs'[i]) < C17_Pending(tabs[i])]_vars

\* The error document for an invalid address has been displayed, its title
\* has been checked, and nothing is pending for the view.
C17_Witness ==
    /\ last.op = "titleResult"
    /\ C17_ShowsError(tabs[last.view])
    /\ tabs[last.view].content = ErrorDocument("Invalid domain format")
    /\ C17_Pending(tabs[last.view]) = 0

(***************************************************************************)
(* C18  Address bar in sync with the active view: whenever no handler is    *)
(* in the middle of its work, the address bar text equals the active        *)
(* view's Virtual Address.                                                  *)
(***************************************************************************)
C18_AddressBarInSync ==
    pc = Idle => url_bar = tabs[current].virtual_url

(***************************************************************************)
(* C19  Sub-frame requests do not move the view: a navigation request with  *)
(* is_main_frame = false changes neither the location nor the Virtual       *)
(* Address of the view that owns the frame and starts no redirect of it.    *)
(***************************************************************************)
C19_SubFrameKeepsView ==
    [][(last'.op = "acceptNavigationRequest" /\ ~last'.main)
       => LET i == last'.view
          IN  /\ tabs'[i].url = tabs[i].url
              /\ tabs'[i].virtual_url = tabs[i].virtual_url
              /\ pc' = Idle]_vars

====
